---- MODULE Spec2Model ----
(***************************************************************************)
(* The run-history store of src/src/agents/run-history.ts: an append-only  *)
(* JSONL log file with a process-local read cache, size-based rotation and *)
(* a filtering query.                                                      *)
(*                                                                         *)
(* A JavaScript string is a tuple of one-character strings, so that        *)
(* toLowerCase and includes are computed; ids, status values and scope     *)
(* keys are only ever compared for equality and stay TLA+ strings.  An     *)
(* optional property that is undefined is a key missing from the record.   *)
(***************************************************************************)
EXTENDS Integers, Sequences, FiniteSets, TLC

VARIABLES
    logFilePath,   \* the module variable logFilePath: Undefined or a path
    entriesCache,  \* the module variable entriesCache: [loaded, entries]
    disk,          \* the log file at the resolved path: [exists, lines, eol]
    dirExists,     \* whether the parent directory of the log file exists
    arrived,       \* history: entries written since the store was last empty
    lastCall,      \* the call the caller has just made, with what it returned
    prev,          \* history: the append (and reset) or clear right before lastCall
    procs,         \* two processes appending to one file: where each call is
    removal        \* the fsp.rm of a clearRunHistory() that is not awaited

vars == <<logFilePath, entriesCache, disk, dirExists, arrived, lastCall, prev,
          procs, removal>>

----------------------------------------------------------------------------
(* Program constants.                                                      *)

MAX_LOG_SIZE_BYTES == 5 * 1024 * 1024

MAX_ENTRIES_IN_MEMORY == 500

DEFAULT_LIMIT == 20

(* Bound of the model: the number of appendRunEntry calls whose write      *)
(* succeeds in one behaviour.                                              *)
MaxAppends == 3

\* unfinished writes in the file at one time
MaxTorn == 1

----------------------------------------------------------------------------
(* Sequences and JavaScript strings.                                       *)

Min(a, b) == IF a < b THEN a ELSE b

Max(a, b) == IF a > b THEN a ELSE b

Range(s) == {s[i] : i \in 1..Len(s)}

Reverse(s) == [i \in 1..Len(s) |-> s[Len(s) + 1 - i]]

IsSuffix(s, t) ==
    /\ Len(s) <= Len(t)
    /\ \A i \in 1..Len(s) : s[i] = t[Len(t) - Len(s) + i]

UpperCase == <<"A", "B", "C", "D", "E", "F", "G", "H", "I", "J", "K", "L", "M",
               "N", "O", "P", "Q", "R", "S", "T", "U", "V", "W", "X", "Y", "Z">>

LowerCase == <<"a", "b", "c", "d", "e", "f", "g", "h", "i", "j", "k", "l", "m",
               "n", "o", "p", "q", "r", "s", "t", "u", "v", "w", "x", "y", "z">>

ToLowerChar(c) ==
    IF \E i \in 1..26 : UpperCase[i] = c
    THEN LowerCase[CHOOSE i \in 1..26 : UpperCase[i] = c]
    ELSE c

\* String.prototype.toLowerCase
toLowerCase(s) == [i \in 1..Len(s) |-> ToLowerChar(s[i])]

\* String.prototype.includes
includes(s, q) ==
    \E i \in 0..(Len(s) - Len(q)) : SubSeq(s, i + 1, i + Len(q)) = q

\* Array.prototype.slice(start) with one argument
slice(s, start) ==
    LET n == Len(s)
        from == IF start < 0 THEN Max(n + start, 0) ELSE Min(start, n)
    IN  SubSeq(s, from + 1, n)

(* The output tail of a command can be megabytes long.  It is kept as its  *)
(* first characters, head, followed by pad copies of PadChar.  A query of  *)
(* m characters occurs in it exactly when it occurs in the head followed   *)
(* by min(pad, m) pad characters.                                          *)
PadChar == "#"

Expand(text, m) == text.head \o [i \in 1..Min(text.pad, m) |-> PadChar]

textIncludesLower(text, q) == includes(toLowerCase(Expand(text, Len(q))), q)

----------------------------------------------------------------------------
(* RunHistoryEntry and its JSON text.                                      *)

Undefined == "undefined"

JSNull == [lit |-> "null"]

JSNum(n) == [num |-> n]

JSStr(s) == [str |-> s]

\* the properties of RunHistoryEntry, in declaration (and insertion) order
KeyOrder == <<"id", "command", "cwd", "status", "exitCode", "exitSignal",
              "durationMs", "outputTail", "truncated", "totalOutputChars",
              "startedAt", "endedAt", "scopeKey">>

FieldType ==
    [id |-> "string", command |-> "string", cwd |-> "string",
     status |-> "string", exitCode |-> "union", exitSignal |-> "union",
     durationMs |-> "number", outputTail |-> "text", truncated |-> "boolean",
     totalOutputChars |-> "number", startedAt |-> "number",
     endedAt |-> "number", scopeKey |-> "string"]

\* the JSON token JSON.stringify writes for the value v of property k
Encode(k, v) ==
    CASE FieldType[k] = "string"  -> [str |-> v]
      [] FieldType[k] = "text"    -> [str |-> v.head, pad |-> v.pad]
      [] FieldType[k] = "number"  -> [num |-> v]
      [] FieldType[k] = "boolean" -> [lit |-> IF v THEN "true" ELSE "false"]
      [] FieldType[k] = "union"   -> v

\* the value JSON.parse reads from the token tok of property k
Decode(k, tok) ==
    CASE FieldType[k] = "string"  -> tok.str
      [] FieldType[k] = "text"    -> [head |-> tok.str, pad |-> tok.pad]
      [] FieldType[k] = "number"  -> tok.num
      [] FieldType[k] = "boolean" -> (tok.lit = "true")
      [] FieldType[k] = "union"   -> tok

JsonStringifyDropsScope(entry) ==
    LET keys == SelectSeq(KeyOrder, LAMBDA k : k \in DOMAIN entry /\ k # "scopeKey")
    IN  [i \in 1..Len(keys) |-> [k |-> keys[i], v |-> Encode(keys[i], entry[keys[i]])]]

\* JSON.stringify(entry): the members of the object, undefined ones left out
JsonStringify(entry) ==
    LET keys == SelectSeq(KeyOrder, LAMBDA k : k \in DOMAIN entry)
    IN  [i \in 1..Len(keys) |-> [k |-> keys[i], v |-> Encode(keys[i], entry[keys[i]])]]

\* A line of the file is a tuple of fragments written by separate writes
\* that no newline separates; it parses when it is one complete JSON text:
\* an object (json), or null, a number or a string (value).
Parses(line) == Len(line) = 1 /\ DOMAIN line[1] \in {{"json"}, {"value"}}

\* JSON.parse(line) of a line that parses: an object is a record of its
\* properties; null, a number and a string are JSNull, JSNum(n), JSStr(s)
JsonParse(line) ==
    IF "value" \in DOMAIN line[1] THEN line[1].value
    ELSE LET members == line[1].json
             keys == {members[i].k : i \in 1..Len(members)}
         IN  [k \in keys |->
                 LET i == CHOOSE j \in 1..Len(members) : members[j].k = k
                 IN  Decode(k, members[i].v)]

RECURSIVE DecLen(_)
\* the number of characters of the decimal text of an integer
DecLen(n) ==
    IF n < 0 THEN 1 + DecLen(-n)
    ELSE IF n < 10 THEN 1
    ELSE 1 + DecLen(n \div 10)

TokenLen(tok) ==
    IF "num" \in DOMAIN tok THEN DecLen(tok.num)
    ELSE IF "lit" \in DOMAIN tok THEN Len(tok.lit)
    ELSE Len(tok.str) + 2 + (IF "pad" \in DOMAIN tok THEN tok.pad ELSE 0)

RECURSIVE MembersLen(_)
MembersLen(members) ==
    IF members = <<>> THEN 0
    ELSE Len(Head(members).k) + 3 + TokenLen(Head(members).v)
         + (IF Len(members) > 1 THEN 1 ELSE 0) + MembersLen(Tail(members))

\* the bytes of one fragment: a JSON object text, or the first members of
\* one that a killed process left behind
FragmentBytes(frag) ==
    IF "json" \in DOMAIN frag THEN 2 + MembersLen(frag.json)
    ELSE IF "value" \in DOMAIN frag THEN TokenLen(frag.value)
    ELSE 1 + MembersLen(frag.torn)

RECURSIVE LineBytes(_)
LineBytes(line) ==
    IF line = <<>> THEN 0 ELSE FragmentBytes(Head(line)) + LineBytes(Tail(line))

----------------------------------------------------------------------------
(* The file system: one log file, <config-dir>/run-history.jsonl.          *)

DefaultLogPath == "run-history.jsonl"

NoFile == [exists |-> FALSE, lines |-> <<>>, eol |-> TRUE]

AppendFileSkipped(d, frag) == d

\* fs.appendFileSync(filePath, line): the text and its newline go after the
\* last byte of the file, which is created when missing
appendFileSync(d, frag) ==
    IF d.lines # <<>> /\ ~d.eol
    THEN [exists |-> TRUE,
          lines |-> [d.lines EXCEPT ![Len(d.lines)] = @ \o <<frag>>],
          eol |-> TRUE]
    ELSE [exists |-> TRUE, lines |-> Append(d.lines, <<frag>>), eol |-> TRUE]

\* the bytes of the lines and their newlines, summed by halves
RECURSIVE SumBytes(_)
SumBytes(lines) ==
    IF lines = <<>> THEN 0
    ELSE IF Len(lines) = 1 THEN LineBytes(lines[1]) + 1
    ELSE LET half == Len(lines) \div 2
         IN  SumBytes(SubSeq(lines, 1, half))
             + SumBytes(SubSeq(lines, half + 1, Len(lines)))

\* fs.statSync(filePath).size
FileSize(d) == SumBytes(d.lines) - (IF d.lines # <<>> /\ ~d.eol THEN 1 ELSE 0)

RECURSIVE DropBlankHead(_)
DropBlankHead(lines) ==
    IF lines # <<>> /\ Head(lines) = <<>> THEN DropBlankHead(Tail(lines)) ELSE lines

\* content.trim().split("\n"): blank lines at both ends go; an empty text
\* splits into one empty line
TrimSplit(d) ==
    LET t == Reverse(DropBlankHead(Reverse(DropBlankHead(d.lines))))
    IN  IF t = <<>> THEN << <<>> >> ELSE t

----------------------------------------------------------------------------
(* The module's functions.                                                 *)

Unloaded == [loaded |-> FALSE, entries |-> <<>>]

Loaded(entries) == [loaded |-> TRUE, entries |-> entries]

resolveLogPath == IF logFilePath # Undefined THEN logFilePath ELSE DefaultLogPath

RotateKeepReversed(lines) == Reverse(slice(lines, Len(lines) \div 2))

RotateKeepOldest(lines) == SubSeq(lines, 1, Len(lines) \div 2)

\* rotateLog: lines.slice(Math.floor(lines.length / 2))
RotateKeep(lines) == slice(lines, Len(lines) \div 2)

\* fs.writeFileSync opens the file with flag "w", which empties it, and then
\* writes the text. "writeFileSync" is the call throwing in the open, with
\* the file as it was; these are the call throwing in a write, with the file
\* emptied, or holding the kept lines but the last
WriteCutShort == {"writeFileSync:truncated", "writeFileSync:short"}

\* the lines in the file after a writeFileSync of `keep` that threw in a write
CutShort(keep, fault) ==
    IF fault = "writeFileSync:truncated" THEN <<>>
    ELSE SubSeq(keep, 1, Len(keep) - 1)

RotateKeepsCache(d, cache, fault) ==
    IF fault \in {"readFileSync", "writeFileSync"}
    THEN [disk |-> d, cache |-> cache]
    ELSE IF fault \in WriteCutShort
    THEN [disk |-> [exists |-> TRUE,
                    lines |-> CutShort(RotateKeep(TrimSplit(d)), fault),
                    eol |-> TRUE],
          cache |-> cache]
    ELSE [disk |-> [exists |-> TRUE, lines |-> RotateKeep(TrimSplit(d)), eol |-> TRUE],
          cache |-> cache]

RotateUnloadsFirst(d, cache, fault) ==
    IF fault \in {"readFileSync", "writeFileSync"}
    THEN [disk |-> d, cache |-> Unloaded]
    ELSE IF fault \in WriteCutShort
    THEN [disk |-> [exists |-> TRUE,
                    lines |-> CutShort(RotateKeep(TrimSplit(d)), fault),
                    eol |-> TRUE],
          cache |-> Unloaded]
    ELSE [disk |-> [exists |-> TRUE, lines |-> RotateKeep(TrimSplit(d)), eol |-> TRUE],
          cache |-> Unloaded]

\* rotateLog(filePath); fault names the file-system call that throws
rotateLog(d, cache, fault) ==
    IF fault \in {"readFileSync", "writeFileSync"}
    THEN [disk |-> d, cache |-> cache]
    ELSE IF fault \in WriteCutShort
    THEN [disk |-> [exists |-> TRUE,
                    lines |-> CutShort(RotateKeep(TrimSplit(d)), fault),
                    eol |-> TRUE],
          cache |-> cache]
    ELSE [disk |-> [exists |-> TRUE, lines |-> RotateKeep(TrimSplit(d)), eol |-> TRUE],
          cache |-> Unloaded]

PushDropsNewest(cache, entry) ==
    IF cache.loaded
    THEN LET pushed == Append(cache.entries, entry)
         IN  Loaded(SubSeq(pushed, 1, Min(Len(pushed), MAX_ENTRIES_IN_MEMORY)))
    ELSE cache

PushUncapped(cache, entry) ==
    IF cache.loaded THEN Loaded(Append(cache.entries, entry)) ELSE cache

\* appendRunEntry, lines 55-60: the cache, when loaded, takes the entry
PushCached(cache, entry) ==
    IF cache.loaded
    THEN LET pushed == Append(cache.entries, entry)
         IN  Loaded(IF Len(pushed) > MAX_ENTRIES_IN_MEMORY
                    THEN slice(pushed, -MAX_ENTRIES_IN_MEMORY)
                    ELSE pushed)
    ELSE cache

NeedsRotationAtThreshold(size) == size >= MAX_LOG_SIZE_BYTES

\* appendRunEntry, line 65: stat.size > MAX_LOG_SIZE_BYTES
NeedsRotation(size) == size > MAX_LOG_SIZE_BYTES

AppendPushesFirst(d, dir, cache, entry, fault) ==
    LET pushed == PushCached(cache, entry)
    IN
    IF ~dir /\ fault = "mkdirSync"
    THEN [disk |-> d, dir |-> dir, cache |-> pushed, wrote |-> FALSE,
          rotated |-> FALSE, raised |-> FALSE]
    ELSE IF fault = "appendFileSync"
    THEN [disk |-> d, dir |-> TRUE, cache |-> pushed, wrote |-> FALSE,
          rotated |-> FALSE, raised |-> FALSE]
    ELSE LET written == appendFileSync(d, [json |-> JsonStringify(entry)])
         IN  IF fault # "statSync" /\ NeedsRotation(FileSize(written))
             THEN LET r == rotateLog(written, pushed, fault)
                  IN  [disk |-> r.disk, dir |-> TRUE, cache |-> r.cache,
                       wrote |-> TRUE, rotated |-> TRUE, raised |-> FALSE]
             ELSE [disk |-> written, dir |-> TRUE, cache |-> pushed,
                   wrote |-> TRUE, rotated |-> FALSE, raised |-> FALSE]

AppendCatchesAfterMkdir ==
    {"appendFileSync", "statSync", "readFileSync", "writeFileSync"} \cup WriteCutShort

\* the throwing calls that the try blocks of appendRunEntry (lines 46-73 and
\* 63-70) and of rotateLog (lines 77-86) enclose
AppendCatches ==
    {"mkdirSync", "appendFileSync"} \cup {"statSync"}
    \cup {"readFileSync", "writeFileSync"} \cup WriteCutShort

\* appendRunEntry(entry): the store after the call, and whether it threw
appendRunEntry(d, dir, cache, entry, fault) ==
    LET raised == fault # "none" /\ fault \notin AppendCatches
    IN
    IF ~dir /\ fault = "mkdirSync"
    THEN [disk |-> d, dir |-> dir, cache |-> cache, wrote |-> FALSE,
          rotated |-> FALSE, raised |-> raised]
    ELSE IF fault = "appendFileSync"
    THEN [disk |-> d, dir |-> TRUE, cache |-> cache, wrote |-> FALSE,
          rotated |-> FALSE, raised |-> raised]
    ELSE LET written == appendFileSync(d, [json |-> JsonStringify(entry)])
             pushed == PushCached(cache, entry)
         IN  IF fault # "statSync" /\ NeedsRotation(FileSize(written))
             THEN LET r == rotateLog(written, pushed, fault)
                  IN  [disk |-> r.disk, dir |-> TRUE, cache |-> r.cache,
                       wrote |-> TRUE, rotated |-> TRUE, raised |-> raised]
             ELSE [disk |-> written, dir |-> TRUE, cache |-> pushed,
                   wrote |-> TRUE, rotated |-> FALSE, raised |-> raised]

\* the throwing calls that the try block of loadEntries (lines 92-114) encloses
LoadCatches == {"readFileSync"}

ParseUntilMalformed(lines) ==
    LET bad == {i \in 1..Len(lines) : ~Parses(lines[i])}
        n == IF bad = {} THEN Len(lines)
             ELSE (CHOOSE i \in bad : \A j \in bad : i <= j) - 1
    IN  [i \in 1..n |-> JsonParse(lines[i])]

\* loadEntries, lines 99-106: each line parsed in its own try block
parseLines(lines) ==
    LET good == SelectSeq(lines, Parses)
    IN  [i \in 1..Len(good) |-> JsonParse(good[i])]

LoadAlwaysReads(d, cache, fault) ==
    IF ~d.exists THEN Loaded(<<>>)
    ELSE IF fault = "readFileSync" THEN Loaded(<<>>)
    ELSE LET entries == parseLines(SelectSeq(TrimSplit(d), LAMBDA l : l # <<>>))
         IN  Loaded(IF Len(entries) > MAX_ENTRIES_IN_MEMORY
                    THEN slice(entries, -MAX_ENTRIES_IN_MEMORY)
                    ELSE entries)

LoadKeepsOldest(d, cache, fault) ==
    IF cache.loaded THEN cache
    ELSE IF ~d.exists THEN Loaded(<<>>)
    ELSE IF fault = "readFileSync" THEN Loaded(<<>>)
    ELSE LET entries == parseLines(SelectSeq(TrimSplit(d), LAMBDA l : l # <<>>))
         IN  Loaded(IF Len(entries) > MAX_ENTRIES_IN_MEMORY
                    THEN SubSeq(entries, 1, MAX_ENTRIES_IN_MEMORY)
                    ELSE entries)

LoadForgetsFailure(d, cache, fault) ==
    IF cache.loaded THEN cache
    ELSE IF ~d.exists THEN Loaded(<<>>)
    ELSE IF fault = "readFileSync" THEN Unloaded
    ELSE LET entries == parseLines(SelectSeq(TrimSplit(d), LAMBDA l : l # <<>>))
         IN  Loaded(IF Len(entries) > MAX_ENTRIES_IN_MEMORY
                    THEN slice(entries, -MAX_ENTRIES_IN_MEMORY)
                    ELSE entries)

\* loadEntries(): the cache after the call, which is also what it returns
loadEntries(d, cache, fault) ==
    IF cache.loaded THEN cache
    ELSE IF ~d.exists THEN Loaded(<<>>)
    ELSE IF fault = "readFileSync" THEN Loaded(<<>>)
    ELSE LET entries == parseLines(SelectSeq(TrimSplit(d), LAMBDA l : l # <<>>))
         IN  Loaded(IF Len(entries) > MAX_ENTRIES_IN_MEMORY
                    THEN slice(entries, -MAX_ENTRIES_IN_MEMORY)
                    ELSE entries)

Has(o, k) == k \in DOMAIN o

StatusMatchNegated(e, status) == ~(Has(e, "status") /\ e.status = status)

\* queryRunHistory, line 128: e.status === opts.status; a property that the
\* value does not have reads as undefined
StatusMatch(e, status) == Has(e, "status") /\ e.status = status

SearchMatchCaseSensitive(e, q) ==
    \/ includes(e.command, q)
    \/ (Has(e, "cwd") /\ e.cwd # <<>> /\ includes(e.cwd, q))
    \/ includes(Expand(e.outputTail, Len(q)), q)

\* the search predicate of queryRunHistory, lines 133-136; q is lower case
SearchMatch(e, q) ==
    \/ includes(toLowerCase(e.command), q)
    \/ (Has(e, "cwd") /\ e.cwd # <<>> /\ includes(toLowerCase(e.cwd), q))
    \/ textIncludesLower(e.outputTail, q)

\* queryRunHistory, line 140: e.startedAt >= opts.since
SinceMatch(e, since) == Has(e, "startedAt") /\ e.startedAt >= since

\* queryRunHistory, line 143: e.scopeKey === opts.scope
ScopeMatch(e, scope) == Has(e, "scopeKey") /\ e.scopeKey = scope

\* queryRunHistory(opts) over the loaded entries
queryRunHistory(entries, opts) ==
    LET limit == IF Has(opts, "limit") THEN opts.limit ELSE DEFAULT_LIMIT
        byStatus ==
            IF Has(opts, "status") /\ opts.status # ""
            THEN SelectSeq(entries, LAMBDA e : StatusMatch(e, opts.status))
            ELSE entries
        bySearch ==
            IF Has(opts, "search") /\ opts.search # <<>>
            THEN SelectSeq(byStatus,
                           LAMBDA e : SearchMatch(e, toLowerCase(opts.search)))
            ELSE byStatus
        bySince ==
            IF Has(opts, "since") /\ opts.since # 0
            THEN SelectSeq(bySearch, LAMBDA e : SinceMatch(e, opts.since))
            ELSE bySearch
        byScope ==
            IF Has(opts, "scope") /\ opts.scope # ""
            THEN SelectSeq(bySince,
LAMBDA e : ScopeMatch(e, opts.scope))
            ELSE bySince
    IN  Reverse(slice(byScope, -limit))

\* getRunEntry, line 152: e.id === id
IdMatch(e, id) == Has(e, "id") /\ e.id = id

GetLastMatch(entries, id) ==
    IF \E i \in 1..Len(entries) : IdMatch(entries[i], id)
    THEN CHOOSE i \in 1..Len(entries) :
            /\ IdMatch(entries[i], id)
            /\ \A j \in (i + 1)..Len(entries) : ~IdMatch(entries[j], id)
    ELSE 0

\* getRunEntry(id): the index of the first entry with that id, 0 for none
getRunEntry(entries, id) ==
    IF \E i \in 1..Len(entries) : IdMatch(entries[i], id)
    THEN CHOOSE i \in 1..Len(entries) :
            /\ IdMatch(entries[i], id)
            /\ \A j \in 1..(i - 1) : ~IdMatch(entries[j], id)
    ELSE 0

StatsKilledAsFailed(entries) ==
    [totalRuns |-> Len(entries),
     completed |-> Len(SelectSeq(entries, LAMBDA e : StatusMatch(e, "completed"))),
     failed |-> Len(SelectSeq(entries, LAMBDA e : ~StatusMatch(e, "completed"))),
     killed |-> Len(SelectSeq(entries, LAMBDA e : StatusMatch(e, "killed")))]

\* runHistoryStats()
runHistoryStats(entries) ==
    [totalRuns |-> Len(entries),
     completed |-> Len(SelectSeq(entries, LAMBDA e : StatusMatch(e, "completed"))),
     failed |-> Len(SelectSeq(entries, LAMBDA e : StatusMatch(e, "failed"))),
     killed |-> Len(SelectSeq(entries, LAMBDA e : StatusMatch(e, "killed")))]

\* What JSON.parse gave need not be a RunHistoryEntry. Reading a property of
\* null throws a TypeError; a property that a number, a string or an object
\* does not have reads as undefined, and calling toLowerCase on undefined
\* throws a TypeError.
TypeError == "TypeError"

ReadThrows(e) == e = JSNull

\* the search predicate, lines 133-136, evaluated left to right
SearchThrows(e, q) ==
    \/ ReadThrows(e)
    \/ ~Has(e, "command")
    \/ /\ ~includes(toLowerCase(e.command), q)
       /\ ~(Has(e, "cwd") /\ e.cwd # <<>> /\ includes(toLowerCase(e.cwd), q))
       /\ ~Has(e, "outputTail")

\* no predicate throws on an object that has command and outputTail
MayThrow(e) == ReadThrows(e) \/ ~Has(e, "command") \/ ~Has(e, "outputTail")

\* whether queryRunHistory(opts) throws: a filter calls its predicate on
\* every element that the filters before it kept
queryThrows(entries, opts) ==
    (\E k \in 1..Len(entries) : MayThrow(entries[k])) /\
    LET hasStatus == Has(opts, "status") /\ opts.status # ""
        hasSearch == Has(opts, "search") /\ opts.search # <<>>
        hasSince == Has(opts, "since") /\ opts.since # 0
        hasScope == Has(opts, "scope") /\ opts.scope # ""
        byStatus ==
            IF hasStatus
            THEN SelectSeq(entries, LAMBDA e : StatusMatch(e, opts.status))
            ELSE entries
        bySearch ==
            IF hasSearch
            THEN SelectSeq(byStatus,
                           LAMBDA e : SearchMatch(e, toLowerCase(opts.search)))
            ELSE byStatus
        bySince ==
            IF hasSince
            THEN SelectSeq(bySearch, LAMBDA e : SinceMatch(e, opts.since))
            ELSE bySearch
    IN  \/ hasStatus /\ \E i \in 1..Len(entries) : ReadThrows(entries[i])
        \/ hasSearch /\ \E i \in 1..Len(byStatus) :
                           SearchThrows(byStatus[i], toLowerCase(opts.search))
        \/ hasSince /\ \E i \in 1..Len(bySearch) : ReadThrows(bySearch[i])
        \/ hasScope /\ \E i \in 1..Len(bySince) : ReadThrows(bySince[i])

\* whether getRunEntry(id) throws: find stops at the first match
getThrows(entries, id) ==
    \E i \in 1..Len(entries) :
        /\ ReadThrows(entries[i])
        /\ \A j \in 1..(i - 1) : ~IdMatch(entries[j], id)

\* whether runHistoryStats() throws
statsThrows(entries) == \E i \in 1..Len(entries) : ReadThrows(entries[i])

\* the throwing call that the try block of clearRunHistory (lines 157-161)
\* encloses
ClearCatches == {"rm"}

ClearKeepsCache(d, cache, fault) ==
    [disk |-> IF fault = "rm" THEN d ELSE NoFile, cache |-> cache]

\* clearRunHistory(): fsp.rm(filePath, {force: true}), then the cache dropped
clearRunHistory(d, cache, fault) ==
    [disk |-> IF fault = "rm" THEN d ELSE NoFile, cache |-> Unloaded]

----------------------------------------------------------------------------
(* The inputs of the calls.                                                *)

\* found by its command: "ls" holds the query in lower case
R1 == [id |-> "r1", command |-> <<"l", "s">>, cwd |-> <<"/", "t">>,
       status |-> "completed", exitCode |-> JSNum(0), exitSignal |-> JSNull,
       durationMs |-> 100, outputTail |-> [head |-> <<"h", "i">>, pad |-> 0],
       truncated |-> FALSE, totalOutputChars |-> 2, startedAt |-> 1,
       endedAt |-> 2]

\* found by no search; older than the epoch; in scope s1; no cwd
R2 == [id |-> "r2", command |-> <<"c", "a", "t">>,
       status |-> "failed", exitCode |-> JSNum(1), exitSignal |-> JSNull,
       durationMs |-> 1, outputTail |-> [head |-> <<"n", "o">>, pad |-> 0],
       truncated |-> FALSE, totalOutputChars |-> 2, startedAt |-> -1,
       endedAt |-> 0, scopeKey |-> "s1"]

\* the bytes that appendRunEntry writes for an entry: its line and "\n"
EntryBytes(e) == FragmentBytes([json |-> JsonStringify(e)]) + 1

R3With(pad, total) ==
    [id |-> "r3", command |-> <<"d", "d">>, cwd |-> <<"/", "L", "S">>,
     status |-> "killed", exitCode |-> JSNull,
     exitSignal |-> JSStr(<<"K", "I", "L", "L">>),
     durationMs |-> 5000, outputTail |-> [head |-> <<"x">>, pad |-> pad],
     truncated |-> TRUE, totalOutputChars |-> total, startedAt |-> 0,
     endedAt |-> 5, scopeKey |-> "s2"]

\* the output tail with which the lines of R3 and R1 together are exactly
\* MAX_LOG_SIZE_BYTES long
BigPad ==
    MAX_LOG_SIZE_BYTES - (EntryBytes(R3With(0, 10000000)) + EntryBytes(R1))

\* found by its cwd, in upper case; close to five megabytes of output
R3 == R3With(BigPad, 2 * BigPad)

\* found by its output tail; the id of R1 again; no cwd
R4 == [id |-> "r1", command |-> <<"p", "w", "d">>,
       status |-> "failed", exitCode |-> JSNum(2), exitSignal |-> JSNull,
       durationMs |-> 3, outputTail |-> [head |-> <<"a", "L", "s">>, pad |-> 0],
       truncated |-> FALSE, totalOutputChars |-> 3, startedAt |-> 2,
       endedAt |-> 5, scopeKey |-> "s1"]

Entries == {R1, R2, R3, R4}

Ids == {"r1", "r2", "r3", "nonexistent"}

Field(k, values) == {<<>>} \cup {k :> v : v \in values}

\* the opts of queryRunHistory: each property missing or one of a few values
QueryOpts ==
    {l @@ st @@ se @@ si @@ sc :
        l \in Field("limit", {0, 1, 2}),
        st \in Field("status", {"failed"}),
        se \in Field("search", {<<"L", "s">>}),
        si \in Field("since", {0, 1}),
        sc \in Field("scope", {"", "s1"})}

NoCall == [op |-> "none"]

NoPrev == [kind |-> "none"]

\* the processes of the two-process specification, each between calls
Procs == {"A", "B"}

NoProcs == [p \in Procs |-> [pc |-> "idle"]]

\* no clearRunHistory() has been called without being awaited
NoRemoval == [pc |-> "none"]

----------------------------------------------------------------------------
(* The state after the module is loaded, and the calls.                    *)

Init ==
    /\ logFilePath = Undefined
    /\ entriesCache = Unloaded
    /\ disk = NoFile
    /\ dirExists = FALSE
    /\ arrived = <<>>
    /\ lastCall = NoCall
    /\ prev = NoPrev
    /\ procs = NoProcs
    /\ removal = NoRemoval

\* the file-system call of appendRunEntry that throws in this call, if any
AppendFaults(d, dir, entry) ==
    LET written == appendFileSync(d, [json |-> JsonStringify(entry)])
    IN  {"none", "appendFileSync", "statSync"}
        \cup (IF dir THEN {} ELSE {"mkdirSync"})
        \cup (IF FileSize(written) > MAX_LOG_SIZE_BYTES
              THEN {"readFileSync", "writeFileSync", "writeFileSync:truncated"}
                   \cup (IF Len(RotateKeep(TrimSplit(written))) >= 2
                         THEN {"writeFileSync:short"} ELSE {})
              ELSE {})

\* appendRunEntry(entry), called while room holds
AppendWhen(room) ==
    /\ lastCall = NoCall
    /\ room
    /\ \E entry \in Entries :
       \E fault \in AppendFaults(disk, dirExists, entry) :
         LET r == appendRunEntry(disk, dirExists, entriesCache, entry, fault)
         IN  /\ logFilePath' = resolveLogPath
             /\ disk' = r.disk
             /\ dirExists' = r.dir
             /\ entriesCache' = r.cache
             /\ arrived' = IF r.wrote THEN Append(arrived, entry) ELSE arrived
             /\ lastCall' = [op |-> "append", entry |-> entry, fault |-> fault,
                             before |-> disk, wrote |-> r.wrote,
                             triggered |-> r.rotated,
                             warm |-> entriesCache.loaded, raised |-> r.raised]
    /\ UNCHANGED <<prev, procs, removal>>

AppendRunEntry == AppendWhen(Len(arrived) < MaxAppends)

\* the file-system call of loadEntries that throws in this call, if any
LoadFaults(d, cache) ==
    {"none"} \cup (IF ~cache.loaded /\ d.exists THEN {"readFileSync"} ELSE {})

\* queryRunHistory(opts) with opts one of optsOffered
QueryWith(optsOffered) ==
    /\ lastCall = NoCall
    /\ \E opts \in optsOffered :
       \E fault \in LoadFaults(disk, entriesCache) :
         LET cache == loadEntries(disk, entriesCache, fault)
             throws == queryThrows(cache.entries, opts)
         IN  /\ entriesCache' = cache
             /\ lastCall' = [op |-> "query", opts |-> opts, fault |-> fault,
                             result |-> IF throws THEN TypeError
                                        ELSE queryRunHistory(cache.entries, opts),
                             after |-> prev, warm |-> entriesCache.loaded,
                             raised |-> \/ fault # "none" /\ fault \notin LoadCatches
                                        \/ throws]
    /\ logFilePath' = resolveLogPath
    /\ UNCHANGED <<disk, dirExists, arrived, prev, procs, removal>>

QueryRunHistory == QueryWith(QueryOpts)

GetRunEntry ==
    /\ lastCall = NoCall
    /\ \E id \in Ids :
       \E fault \in LoadFaults(disk, entriesCache) :
         LET cache == loadEntries(disk, entriesCache, fault)
             i == getRunEntry(cache.entries, id)
             throws == getThrows(cache.entries, id)
         IN  /\ entriesCache' = cache
             /\ lastCall' = [op |-> "get", id |-> id, fault |-> fault,
                             result |-> IF throws THEN TypeError
                                        ELSE IF i = 0 THEN <<>>
                                        ELSE <<cache.entries[i]>>,
                             warm |-> entriesCache.loaded,
                             raised |-> \/ fault # "none" /\ fault \notin LoadCatches
                                        \/ throws]
    /\ logFilePath' = resolveLogPath
    /\ UNCHANGED <<disk, dirExists, arrived, prev, procs, removal>>

RunHistoryStats ==
    /\ lastCall = NoCall
    /\ \E fault \in LoadFaults(disk, entriesCache) :
         LET cache == loadEntries(disk, entriesCache, fault)
             throws == statsThrows(cache.entries)
         IN  /\ entriesCache' = cache
             /\ lastCall' = [op |-> "stats", fault |-> fault,
                             result |-> IF throws THEN TypeError
                                        ELSE runHistoryStats(cache.entries),
                             after |-> prev, warm |-> entriesCache.loaded,
                             cache |-> entriesCache, file |-> disk,
                             raised |-> \/ fault # "none" /\ fault \notin LoadCatches
                                        \/ throws]
    /\ logFilePath' = resolveLogPath
    /\ UNCHANGED <<disk, dirExists, arrived, prev, procs, removal>>

\* clearRunHistory(), awaited by its caller; fsp.rm may throw
ClearRunHistory ==
    /\ lastCall = NoCall
    /\ \E fault \in {"none"} \cup (IF disk.exists THEN {"rm"} ELSE {}) :
         LET r == clearRunHistory(disk, entriesCache, fault)
         IN  /\ disk' = r.disk
             /\ entriesCache' = r.cache
             /\ arrived' = IF fault = "rm" THEN arrived ELSE <<>>
             /\ lastCall' = [op |-> "clear", fault |-> fault, before |-> disk,
                             warm |-> entriesCache.loaded,
                             raised |-> fault # "none" /\ fault \notin ClearCatches]
    /\ logFilePath' = resolveLogPath
    /\ UNCHANGED <<dirExists, prev, procs, removal>>

SetRunHistoryPathForTest ==
    /\ lastCall = NoCall
    /\ logFilePath' = DefaultLogPath
    /\ entriesCache' = Unloaded
    /\ lastCall' = [op |-> "setPath"]
    /\ UNCHANGED <<disk, dirExists, arrived, prev, procs, removal>>

ResetRunHistoryForTest ==
    /\ lastCall = NoCall
    /\ logFilePath' = Undefined
    /\ entriesCache' = Unloaded
    /\ lastCall' = [op |-> "reset"]
    /\ UNCHANGED <<disk, dirExists, arrived, prev, procs, removal>>

\* the caller takes the result and goes on to its next call
Continue ==
    /\ lastCall # NoCall
    /\ prev' =
         IF lastCall.op = "append"
         THEN IF lastCall.fault = "none"
              THEN [kind |-> "appended", entry |-> lastCall.entry,
                    rotated |-> lastCall.triggered, warm |-> lastCall.warm]
              ELSE NoPrev
         ELSE IF lastCall.op \in {"reset", "setPath"}
                 /\ prev.kind \in {"appended", "fresh"}
         THEN [kind |-> "fresh", entry |-> prev.entry, rotated |-> prev.rotated,
               warm |-> FALSE]
         ELSE IF lastCall.op = "clear"
         THEN [kind |-> "cleared", fault |-> lastCall.fault,
               had |-> lastCall.before.exists, warm |-> lastCall.warm]
         ELSE NoPrev
    /\ lastCall' = NoCall
    /\ UNCHANGED <<logFilePath, entriesCache, disk, dirExists, arrived, procs, removal>>

\* a file-system call that throws leaves the file as it was
Next ==
    \/ (AppendRunEntry /\ lastCall'.fault \notin WriteCutShort)
    \/ QueryRunHistory
    \/ GetRunEntry
    \/ RunHistoryStats
    \/ ClearRunHistory
    \/ SetRunHistoryPathForTest
    \/ ResetRunHistoryForTest
    \/ Continue

Spec == Init /\ [][Next]_vars

----------------------------------------------------------------------------
(* A rotation whose writeFileSync may throw after it has opened the file.  *)

NextRotate ==
    \/ AppendRunEntry
    \/ QueryWith({<<>>})
    \/ ResetRunHistoryForTest
    \/ Continue

SpecRotate == Init /\ [][NextRotate]_vars

----------------------------------------------------------------------------
(* A process killed inside appendFileSync.                                 *)

\* the writes that a killed process left unfinished and that are still in
\* the file: each is a fragment with no newline after it
RECURSIVE Damaged(_)
Damaged(d) ==
    IF d.lines = <<>> THEN 0
    ELSE Len(d.lines[Len(d.lines)]) - (IF d.eol THEN 1 ELSE 0)
         + Damaged([d EXCEPT !.lines = SubSeq(@, 1, Len(@) - 1), !.eol = TRUE])

\* what a killed write leaves of an entry's line: the text up to a member,
\* or all of it but the newline
Partial(entry) ==
    LET members == JsonStringify(entry)
    IN  {[torn |-> SubSeq(members, 1, 2)], [json |-> members]}

\* the process dies inside appendFileSync with part of the line written;
\* the next process starts with the module freshly loaded
CrashMidWrite ==
    /\ lastCall = NoCall
    /\ Damaged(disk) < MaxTorn
    /\ \E entry \in Entries :
       \E frag \in Partial(entry) :
         disk' = [appendFileSync(disk, frag) EXCEPT !.eol = FALSE]
    /\ dirExists' = TRUE
    /\ logFilePath' = Undefined
    /\ entriesCache' = Unloaded
    /\ prev' = NoPrev
    /\ UNCHANGED <<arrived, lastCall, procs, removal>>

CrashQueryOpts == {<<>>, "limit" :> 1}

NextCrash ==
    \/ (AppendRunEntry /\ lastCall'.fault = "none")
    \/ CrashMidWrite
    \/ QueryWith({<<>>})
    \/ Continue

SpecCrash == Init /\ [][NextCrash]_vars

----------------------------------------------------------------------------
(* A store that is one entry short of MAX_ENTRIES_IN_MEMORY, and no        *)
(* file-system call fails.                                                 *)

PreloadLines == MAX_ENTRIES_IN_MEMORY - 1

\* the i-th run of the history that the store starts with
Filler(i) == [R1 EXCEPT !.startedAt = i, !.endedAt = i + 1]

InitBig ==
    /\ logFilePath = Undefined
    /\ entriesCache = Unloaded
    /\ disk = [exists |-> TRUE,
               lines |-> [i \in 1..PreloadLines |->
                            << [json |-> JsonStringify(Filler(i))] >>],
               eol |-> TRUE]
    /\ dirExists = TRUE
    /\ arrived = [i \in 1..PreloadLines |-> Filler(i)]
    /\ lastCall = NoCall
    /\ prev = NoPrev
    /\ procs = NoProcs
    /\ removal = NoRemoval

\* MaxAppends more entries, and MaxAppends again after a clear
BigRoom ==
    \/ Len(arrived) < MaxAppends
    \/ (Len(arrived) >= PreloadLines /\ Len(arrived) < PreloadLines + MaxAppends)

NextBig ==
    \/ (AppendWhen(BigRoom) /\ lastCall'.fault = "none")
    \/ (QueryWith(CrashQueryOpts) /\ lastCall'.fault = "none")
    \/ (GetRunEntry /\ lastCall'.fault = "none")
    \/ (RunHistoryStats /\ lastCall'.fault = "none")
    \/ (ClearRunHistory /\ lastCall'.fault = "none")
    \/ Continue

SpecBig == InitBig /\ [][NextBig]_vars

----------------------------------------------------------------------------
(* A file that grew past MAX_ENTRIES_IN_MEMORY lines in earlier processes  *)
(* and was not rotated; this process only reads, and no file-system call   *)
(* fails.                                                                  *)

\* the runs that earlier processes logged: n of them, the oldest one `first`
OldRuns(n, first) == [i \in 1..n |-> IF i = 1 THEN first ELSE Filler(i)]

InitOld ==
    /\ logFilePath = Undefined
    /\ entriesCache = Unloaded
    /\ \E n \in (MAX_ENTRIES_IN_MEMORY + 1)..(MAX_ENTRIES_IN_MEMORY + MaxAppends - 1) :
       \E first \in {R2, Filler(1)} :
         /\ disk = [exists |-> TRUE,
                    lines |-> [i \in 1..n |->
                                 << [json |-> JsonStringify(OldRuns(n, first)[i])] >>],
                    eol |-> TRUE]
         /\ arrived = OldRuns(n, first)
    /\ dirExists = TRUE
    /\ lastCall = NoCall
    /\ prev = NoPrev
    /\ procs = NoProcs
    /\ removal = NoRemoval

NextOld ==
    \/ (QueryRunHistory /\ lastCall'.fault = "none")
    \/ (GetRunEntry /\ lastCall'.fault = "none")
    \/ (RunHistoryStats /\ lastCall'.fault = "none")
    \/ Continue

SpecOld == InitOld /\ [][NextOld]_vars

----------------------------------------------------------------------------
(* A log file that holds lines which are JSON texts but not entries, as    *)
(* another program or an editor may leave them. This process only reads.   *)

\* JSON.stringify(entry) without the member of property k
Lacking(entry, k) == SelectSeq(JsonStringify(entry), LAMBDA m : m.k # k)

\* the lines null, 7 and "x", an object with no command and one with no
\* outputTail, and the lines of two entries
ForeignLines ==
    {<< [value |-> JSNull] >>, << [value |-> JSNum(7)] >>,
     << [value |-> JSStr(<<"x">>)] >>,
     << [json |-> Lacking(R2, "command")] >>,
     << [json |-> Lacking(R2, "outputTail")] >>,
     << [json |-> JsonStringify(R1)] >>, << [json |-> JsonStringify(R2)] >>}

InitForeign ==
    /\ logFilePath = Undefined
    /\ entriesCache = Unloaded
    /\ \E n \in 1..(MaxAppends - 1) :
       \E lines \in [1..n -> ForeignLines] :
         disk = [exists |-> TRUE, lines |-> lines, eol |-> TRUE]
    /\ dirExists = TRUE
    /\ arrived = <<>>
    /\ lastCall = NoCall
    /\ prev = NoPrev
    /\ procs = NoProcs
    /\ removal = NoRemoval

NextForeign ==
    \/ QueryRunHistory
    \/ GetRunEntry
    \/ RunHistoryStats
    \/ Continue

SpecForeign == InitForeign /\ [][NextForeign]_vars

----------------------------------------------------------------------------
(* Two processes that append to the same file. Neither reads, so the cache *)
(* of each stays unloaded; no file-system call fails.                      *)

\* appendRunEntry, lines 48-52: the directory made, the line appended in one
\* write
WriteLine(p) ==
    /\ procs[p].pc = "idle"
    /\ Len(arrived) < MaxAppends
    /\ \E entry \in Entries :
         /\ disk' = appendFileSync(disk, [json |-> JsonStringify(entry)])
         /\ arrived' = Append(arrived, entry)
         /\ entriesCache' = PushCached(entriesCache, entry)
         /\ procs' = [procs EXCEPT ![p] = [pc |-> "stat"]]
    /\ dirExists' = TRUE
    /\ UNCHANGED <<logFilePath, lastCall, prev, removal>>

\* appendRunEntry, lines 64-67: the size of the file as it is now; statSync
\* throws when the file is gone
StatFile(p) ==
    /\ procs[p].pc = "stat"
    /\ procs' = [procs EXCEPT ![p] =
                    IF disk.exists /\ NeedsRotation(FileSize(disk))
                    THEN [pc |-> "read"] ELSE [pc |-> "idle"]]
    /\ UNCHANGED <<logFilePath, entriesCache, disk, dirExists, arrived,
                   lastCall, prev, removal>>

\* rotateLog, lines 78-79: the file read and split; readFileSync throws when
\* the file is gone
RotateRead(p) ==
    /\ procs[p].pc = "read"
    /\ procs' = [procs EXCEPT ![p] =
                    IF disk.exists
                    THEN [pc |-> "write", lines |-> TrimSplit(disk)]
                    ELSE [pc |-> "idle"]]
    /\ UNCHANGED <<logFilePath, entriesCache, disk, dirExists, arrived,
                   lastCall, prev, removal>>

\* rotateLog, lines 81-83: the newer half of what was read written over the
\* file
RotateWrite(p) ==
    /\ procs[p].pc = "write"
    /\ LET r == rotateLog([disk EXCEPT !.lines = procs[p].lines],
                          entriesCache, "none")
       IN  disk' = r.disk /\ entriesCache' = r.cache
    /\ procs' = [procs EXCEPT ![p] = [pc |-> "idle"]]
    /\ UNCHANGED <<logFilePath, dirExists, arrived, lastCall, prev, removal>>

NextTwo ==
    \E p \in Procs :
        \/ WriteLine(p)
        \/ StatFile(p)
        \/ RotateRead(p)
        \/ RotateWrite(p)

SpecTwo == Init /\ [][NextTwo]_vars

----------------------------------------------------------------------------
(* One process that calls clearRunHistory() without awaiting it: fsp.rm    *)
(* removes the file on a thread of the pool, at any moment of the calls    *)
(* that the main thread makes meanwhile, and the rest of clearRunHistory   *)
(* runs between two of those calls. No file-system call fails.             *)

Main == "A"

\* clearRunHistory, lines 156-158: the path resolved, fsp.rm started
ClearStart ==
    /\ lastCall = NoCall
    /\ procs[Main].pc = "idle"
    /\ removal.pc = "none"
    /\ removal' = [pc |-> "pending", mark |-> Len(arrived)]
    /\ logFilePath' = resolveLogPath
    /\ UNCHANGED <<entriesCache, disk, dirExists, arrived, lastCall, prev, procs>>

\* fsp.rm, on a thread of the pool: the file unlinked
Unlink ==
    /\ removal.pc = "pending"
    /\ disk' = clearRunHistory(disk, entriesCache, "none").disk
    /\ removal' = [removal EXCEPT !.pc = "removed"]
    /\ UNCHANGED <<logFilePath, entriesCache, dirExists, arrived, lastCall, prev,
                   procs>>

\* clearRunHistory, line 162, after the await: the cache unloaded, the
\* promise resolved
ClearResolve ==
    /\ lastCall = NoCall
    /\ procs[Main].pc = "idle"
    /\ removal.pc = "removed"
    /\ entriesCache' = clearRunHistory(disk, entriesCache, "none").cache
    /\ removal' = [removal EXCEPT !.pc = "resolved"]
    /\ UNCHANGED <<logFilePath, disk, dirExists, arrived, lastCall, prev, procs>>

NextClear ==
    \/ (lastCall = NoCall /\ WriteLine(Main))
    \/ StatFile(Main)
    \/ RotateRead(Main)
    \/ RotateWrite(Main)
    \/ (procs[Main].pc = "idle" /\ QueryWith({<<>>}) /\ lastCall'.fault = "none")
    \/ Continue
    \/ ClearStart
    \/ Unlink
    \/ ClearResolve

SpecClear == Init /\ [][NextClear]_vars

----------------------------------------------------------------------------
(* What the claims speak of.                                               *)

\* the last n elements of s, all of s when it has fewer
LastN(s, n) == SubSeq(s, Len(s) - Min(n, Len(s)) + 1, Len(s))

\* the newest n of the entries that satisfy P, newest first
NewestFirst(entries, P(_), n) == Reverse(LastN(SelectSeq(entries, P), n))

SameLetter(a, b) ==
    a = b \/ \E k \in 1..26 : {a, b} = {UpperCase[k], LowerCase[k]}

\* s occurs in t, letters compared without regard to case
ContainsIgnoreCase(t, s) ==
    \E i \in 1..(Len(t) - Len(s) + 1) :
        \A j \in 1..Len(s) : SameLetter(t[i + j - 1], s[j])

Mentions(e, s) ==
    \/ ContainsIgnoreCase(e.command, s)
    \/ (Has(e, "cwd") /\ ContainsIgnoreCase(e.cwd, s))
    \/ ContainsIgnoreCase(Expand(e.outputTail, Len(s)), s)

Queried(keys) == lastCall.op = "query" /\ DOMAIN lastCall.opts = keys

\* C1: a query with no filters right after an appendRunEntry(e) whose
\* file-system calls all succeeded returns e first, then earlier entries in
\* reverse arrival order, whether the cache was loaded and whether the
\* append rotated the file.
C1_AppendThenQuery ==
    (Queried({}) /\ lastCall.fault = "none" /\ lastCall.after.kind = "appended")
    => /\ lastCall.result # <<>>
       /\ lastCall.result[1] = lastCall.after.entry
       /\ IsSuffix(Reverse(lastCall.result), arrived)
       /\ Len(lastCall.result) = Min(DEFAULT_LIMIT, Len(entriesCache.entries))

C1_Witness ==
    /\ Queried({}) /\ lastCall.fault = "none"
    /\ lastCall.after.kind = "appended" /\ lastCall.after.rotated
    /\ Len(arrived) = 3
    /\ lastCall.result = <<arrived[3], arrived[2]>>

\* C2: after an append that succeeded, a fresh process (cache unloaded, same
\* path) that queries gets the entry back, read from the log file.
C2_Durable ==
    (Queried({}) /\ lastCall.fault = "none" /\ lastCall.after.kind = "fresh")
    => \E i \in 1..Len(lastCall.result) : lastCall.result[i] = lastCall.after.entry

C2_Witness ==
    /\ Queried({}) /\ lastCall.fault = "none"
    /\ lastCall.after.kind = "fresh" /\ ~lastCall.after.rotated
    /\ Len(lastCall.result) = 2
    /\ lastCall.result[1] = lastCall.after.entry

\* C3: an append whose write succeeds and that triggers no rotation adds one
\* line at the end of the file, which parses back to the entry, and leaves
\* the lines before it as they were; the first append leaves one line.
C3_OneLineAppended ==
    (lastCall.op = "append" /\ lastCall.wrote /\ ~lastCall.triggered)
    => /\ Len(disk.lines) = Len(lastCall.before.lines) + 1
       /\ SubSeq(disk.lines, 1, Len(lastCall.before.lines)) = lastCall.before.lines
       /\ Parses(disk.lines[Len(disk.lines)])
       /\ JsonParse(disk.lines[Len(disk.lines)]) = lastCall.entry
       /\ (~lastCall.before.exists => Len(disk.lines) = 1)

C3_Witness ==
    /\ lastCall.op = "append" /\ lastCall.wrote /\ ~lastCall.triggered
    /\ Len(lastCall.before.lines) = 2
    /\ Has(lastCall.entry, "scopeKey") /\ ~Has(lastCall.entry, "cwd")

\* C4: with n entries appended to an empty store, none of them lost, a query
\* with limit L returns min(n, L) entries.
C4_LimitReturnsMin ==
    (/\ Queried({"limit"}) /\ lastCall.fault = "none"
     /\ Len(disk.lines) = Len(arrived)
     /\ Len(entriesCache.entries) = Len(arrived))
    => Len(lastCall.result) = Min(Len(arrived), lastCall.opts.limit)

\* C5: a query returns at most limit entries, at most 20 with no limit.
C5_AtMostLimit ==
    lastCall.op = "query"
    => Len(lastCall.result) <=
         (IF Has(lastCall.opts, "limit") THEN lastCall.opts.limit ELSE DEFAULT_LIMIT)

\* C6: a query by status s returns only entries of status s, and the newest
\* 20 of all cached entries of status s, newest first; none is an empty result.
C6_StatusFilter ==
    Queried({"status"})
    => /\ \A i \in 1..Len(lastCall.result) :
            lastCall.result[i].status = lastCall.opts.status
       /\ lastCall.result =
            NewestFirst(entriesCache.entries,
                        LAMBDA e : e.status = lastCall.opts.status, DEFAULT_LIMIT)

C6_Witness ==
    /\ Queried({"status"})
    /\ Len(lastCall.result) = 2
    /\ Len(entriesCache.entries) = 3

\* C7: a query by search s returns the newest 20 of exactly the cached
\* entries whose command, cwd (when present) or outputTail contains s,
\* letters compared without regard to case.
C7_SearchFilter ==
    Queried({"search"})
    => lastCall.result =
         NewestFirst(entriesCache.entries,
                     LAMBDA e : Mentions(e, lastCall.opts.search), DEFAULT_LIMIT)

C7_Witness ==
    /\ Queried({"search"})
    /\ Len(entriesCache.entries) = 3
    /\ Len(lastCall.result) = 2
    /\ ~Has(lastCall.result[1], "cwd")
    /\ Has(lastCall.result[2], "cwd")
    /\ ~ContainsIgnoreCase(lastCall.result[2].command, lastCall.opts.search)

\* C8: a query by since excludes every entry with startedAt < since and
\* returns the newest 20 of those with startedAt >= since, for any since.
C8_SinceFilter ==
    Queried({"since"})
    => /\ \A i \in 1..Len(lastCall.result) :
            lastCall.result[i].startedAt >= lastCall.opts.since
       /\ lastCall.result =
            NewestFirst(entriesCache.entries,
                        LAMBDA e : e.startedAt >= lastCall.opts.since, DEFAULT_LIMIT)

\* C9: a query by scope returns only entries whose scopeKey equals the
\* scope, for any scope string.
C9_ScopeFilter ==
    Queried({"scope"})
    => \A i \in 1..Len(lastCall.result) :
          /\ Has(lastCall.result[i], "scopeKey")
          /\ lastCall.result[i].scopeKey = lastCall.opts.scope

\* an entry satisfies every filter that opts supplies
SatisfiesAll(e, opts) ==
    /\ Has(opts, "status") => e.status = opts.status
    /\ Has(opts, "search") => Mentions(e, opts.search)
    /\ Has(opts, "since") => e.startedAt >= opts.since
    /\ Has(opts, "scope") => (Has(e, "scopeKey") /\ e.scopeKey = opts.scope)

\* C10: with several filters supplied, a query returns the newest limit of
\* exactly the cached entries satisfying all of them.
C10_FiltersCompose ==
    (lastCall.op = "query" /\ Cardinality(DOMAIN lastCall.opts \ {"limit"}) >= 2)
    => lastCall.result =
         NewestFirst(entriesCache.entries,
                     LAMBDA e : SatisfiesAll(e, lastCall.opts),
                     IF Has(lastCall.opts, "limit") THEN lastCall.opts.limit
                     ELSE DEFAULT_LIMIT)

CountStatus(entries, status) ==
    Cardinality({i \in 1..Len(entries) : entries[i].status = status})

StatsCounts(entries) ==
    [totalRuns |-> Len(entries),
     completed |-> CountStatus(entries, "completed"),
     failed |-> CountStatus(entries, "failed"),
     killed |-> CountStatus(entries, "killed")]

\* C12 as stated: runHistoryStats() returns the four counts of the cached
\* entries and leaves the state of the module as it was.
C12_StatsPure ==
    lastCall.op = "stats"
    => /\ lastCall.result = StatsCounts(entriesCache.entries)
       /\ entriesCache = lastCall.cache
       /\ disk = lastCall.file

\* C12: runHistoryStats() returns the four counts of the cached entries
\* (2 completed, 1 failed, 1 killed give {4, 2, 1, 1}); it leaves the file and
\* a loaded cache as they were, and loads the cache when it was unloaded.
C12_StatsCounts ==
    /\ runHistoryStats(<<R1, R4, R1, R3>>)
         = [totalRuns |-> 4, completed |-> 2, failed |-> 1, killed |-> 1]
    /\ lastCall.op = "stats"
       => /\ lastCall.result = StatsCounts(entriesCache.entries)
          /\ disk = lastCall.file
          /\ entriesCache.loaded
          /\ lastCall.cache.loaded => entriesCache = lastCall.cache

C12_Witness ==
    /\ lastCall.op = "stats" /\ lastCall.fault = "none"
    /\ ~lastCall.cache.loaded
    /\ lastCall.result =
          [totalRuns |-> 3, completed |-> 1, failed |-> 1, killed |-> 1]

\* C13: getRunEntry(id) returns the first entry in cache order with that id,
\* the earlier one when two share it, and undefined (without raising) when
\* no cached entry has it.
C13_GetFirstMatch ==
    lastCall.op = "get"
    => LET es == entriesCache.entries
           hits == {i \in 1..Len(es) : es[i].id = lastCall.id}
       IN  /\ ~lastCall.raised
           /\ hits = {} => lastCall.result = <<>>
           /\ hits # {} => \E i \in hits : /\ \A j \in hits : i <= j
                                            /\ lastCall.result = <<es[i]>>

C13_Witness ==
    /\ lastCall.op = "get" /\ lastCall.id = "r1"
    /\ Len(entriesCache.entries) = 3
    /\ entriesCache.entries[1] = R4
    /\ entriesCache.entries[3] = R1
    /\ lastCall.result = <<R4>>

\* C14: appendRunEntry returns normally whichever of its file-system calls
\* fails: the directory creation, the append, the stat, or the read or the
\* rewrite of a rotation.
C14_AppendNeverRaises ==
    lastCall.op = "append" => ~lastCall.raised

C14_Witness ==
    /\ lastCall.op = "append" /\ lastCall.fault = "mkdirSync"
    /\ ~lastCall.raised /\ ~lastCall.wrote

\* C15: a read on an unloaded cache whose file is missing or cannot be read
\* does not raise; it caches the empty array, and the query returns [],
\* getRunEntry undefined, runHistoryStats four zeros.
C15_LoaderNeverThrows ==
    (lastCall.op \in {"query", "get", "stats"} /\ ~lastCall.warm
       /\ (~disk.exists \/ lastCall.fault = "readFileSync"))
    => /\ ~lastCall.raised
       /\ entriesCache = Loaded(<<>>)
       /\ lastCall.op \in {"query", "get"} => lastCall.result = <<>>
       /\ lastCall.op = "stats"
          => lastCall.result =
               [totalRuns |-> 0, completed |-> 0, failed |-> 0, killed |-> 0]

C15_Witness ==
    /\ lastCall.op = "get" /\ lastCall.fault = "readFileSync"
    /\ lastCall.id = "r2" /\ Len(disk.lines) = 2
    /\ \E i \in 1..2 : disk.lines[i] = << [json |-> JsonStringify(R2)] >>
    /\ lastCall.result = <<>> /\ entriesCache = Loaded(<<>>)

\* C19: an append whose write and stat succeed runs the rotation exactly when
\* the file is then longer than 5 MiB, and never otherwise; a rotation that
\* succeeds on the n lines leaves lines[floor(n/2):], each ended by a
\* newline, the newest line among them, fewer than n when n >= 2.
C19_RotationAtThreshold ==
    lastCall.op = "append"
    => LET line == << [json |-> JsonStringify(lastCall.entry)] >>
           all == Append(lastCall.before.lines, line)
           n == Len(all)
           size == SumBytes(all)
       IN  /\ lastCall.triggered => (lastCall.wrote /\ size > 5 * 1024 * 1024)
           /\ (lastCall.wrote /\ lastCall.fault # "statSync")
              => (lastCall.triggered <=> size > 5 * 1024 * 1024)
           /\ (lastCall.triggered /\ lastCall.fault = "none")
              => /\ disk.exists /\ disk.eol
                 /\ disk.lines = SubSeq(all, (n \div 2) + 1, n)
                 /\ disk.lines[Len(disk.lines)] = line
                 /\ n >= 2 => Len(disk.lines) < n
           /\ (lastCall.triggered /\ lastCall.fault \in {"readFileSync", "writeFileSync"})
              => disk.lines = all

C19_Witness ==
    /\ lastCall.op = "append" /\ lastCall.triggered /\ lastCall.fault = "none"
    /\ Len(lastCall.before.lines) = 2
    /\ FileSize(lastCall.before) = MAX_LOG_SIZE_BYTES
    /\ Len(disk.lines) = 2

Occurrences(seq, x) == Cardinality({i \in 1..Len(seq) : seq[i] = x})

FileEntries == [i \in 1..Len(disk.lines) |-> JsonParse(disk.lines[i])]

\* C20: an append whose rotation succeeded leaves the cache unloaded, also
\* when it was loaded before; the query or stats call that follows reads the
\* rotated file: it returns no entry more often than the file holds it, and
\* with no filter exactly the entries of the file.
C20_RotationUnloadsCache ==
    /\ (lastCall.op = "append" /\ lastCall.triggered /\ lastCall.fault = "none")
       => entriesCache = Unloaded
    /\ (lastCall.op = "query" /\ lastCall.fault = "none"
          /\ lastCall.after.kind = "appended" /\ lastCall.after.rotated)
       => /\ ~lastCall.warm
          /\ \A i \in 1..Len(lastCall.result) :
                Occurrences(lastCall.result, lastCall.result[i])
                  <= Occurrences(FileEntries, lastCall.result[i])
          /\ DOMAIN lastCall.opts = {} => Reverse(lastCall.result) = FileEntries
    /\ (lastCall.op = "stats" /\ lastCall.fault = "none"
          /\ lastCall.after.kind = "appended" /\ lastCall.after.rotated)
       => lastCall.result.totalRuns = Len(disk.lines)

C20_Witness ==
    /\ Queried({}) /\ lastCall.fault = "none"
    /\ lastCall.after.kind = "appended" /\ lastCall.after.rotated
    /\ lastCall.after.warm
    /\ Len(arrived) = 3 /\ Len(lastCall.result) = 2
    /\ \A i \in 1..2 : lastCall.result[i] # arrived[1]

\* a line that is the complete text of one JSON object
WellFormed(line) == Len(line) = 1 /\ DOMAIN line[1] = {"json"}

\* C16: a load of a file that mixes well-formed and malformed lines gives
\* exactly the entries of the well-formed lines, in file order: the k-th
\* well-formed line is the k-th entry, whatever stands before or after it.
C16_MalformedSkipped ==
    (lastCall.op = "query" /\ ~lastCall.warm
       /\ lastCall.fault = "none")
    => LET good == {i \in 1..Len(disk.lines) : WellFormed(disk.lines[i])}
           es == entriesCache.entries
       IN  /\ Len(es) = Cardinality(good)
           /\ \A i \in good :
                es[Cardinality({j \in good : j <= i})] = JsonParse(disk.lines[i])

C16_Witness ==
    /\ lastCall.op = "query" /\ ~lastCall.warm /\ lastCall.fault = "none"
    /\ Len(disk.lines) = 3
    /\ WellFormed(disk.lines[1]) /\ ~WellFormed(disk.lines[2])
    /\ WellFormed(disk.lines[3])
    /\ Len(entriesCache.entries) = 2
    /\ lastCall.opts = <<>> /\ Len(lastCall.result) = 2

\* the lines written so far, in the order of the writes
WrittenLines ==
    [i \in 1..Len(arrived) |-> << [json |-> JsonStringify(arrived[i])] >>]

\* C17: with two processes appending, in every interleaving of their steps
\* the file holds written lines unchanged and in the order written, and the
\* only lines missing are the oldest ones: the file is a suffix of what was
\* written.
C17_NoLineLost == IsSuffix(disk.lines, WrittenLines)

\* C18: in one process whose calls run one after the other and whose
\* file-system calls all succeed, a loaded cache is the last min(500, k)
\* entries of the k lines of the file, in file order; a query on a loaded
\* cache returns what a process that loads the file afresh would return.
C18_CacheMirrorsFile ==
    /\ entriesCache.loaded
       => entriesCache.entries = LastN(FileEntries, 500)
    /\ (lastCall.op = "query" /\ lastCall.warm)
       => lastCall.result =
            queryRunHistory(loadEntries(disk, Unloaded, "none").entries,
                            lastCall.opts)

C18_Witness ==
    /\ lastCall.op = "query" /\ lastCall.warm
    /\ Len(disk.lines) = 502
    /\ Len(entriesCache.entries) = 500
    /\ entriesCache.entries[500] = R4

\* C21: a loaded cache holds at most 500 entries, and they are the entries
\* that arrived last, in the order of their arrival: a load keeps the last
\* 500 parsed entries, an append onto 500 cached entries drops the oldest.
C21_CacheCapped ==
    entriesCache.loaded
    => /\ Len(entriesCache.entries) <= 500
       /\ IsSuffix(entriesCache.entries, arrived)
       /\ Len(entriesCache.entries) = Min(500, Len(disk.lines))

C21_Witness ==
    /\ lastCall.op = "append" /\ lastCall.warm /\ ~lastCall.triggered
    /\ Len(arrived) = 501
    /\ Len(entriesCache.entries) = 500
    /\ entriesCache.entries[1] = arrived[2]
    /\ entriesCache.entries[500] = lastCall.entry

\* an appendRunEntry call in which the directory creation or the append
\* write throws
FailedWrite ==
    /\ lastCall.op = "none" /\ lastCall'.op = "append"
    /\ lastCall'.fault \in {"mkdirSync", "appendFileSync"}

\* C23: an appendRunEntry whose directory creation or append write fails
\* leaves the cache and the file as they were and attempts no rotation; so
\* every entry of a loaded cache was written to the file by some append.
C23_FailedWriteKeepsCache ==
    /\ [][FailedWrite => /\ entriesCache' = entriesCache
                         /\ disk' = disk
                         /\ ~lastCall'.triggered /\ ~lastCall'.wrote]_vars
    /\ [](entriesCache.loaded
            => \A i \in 1..Len(entriesCache.entries) :
                 entriesCache.entries[i] \in Range(arrived))

C23_Witness ==
    /\ lastCall.op = "append" /\ lastCall.fault = "appendFileSync"
    /\ lastCall.warm /\ entriesCache.loaded
    /\ Len(entriesCache.entries) = 2
    /\ lastCall.entry \notin Range(entriesCache.entries)

\* the file holds the lines of file and then the line of one more entry
OneLineMore(file, longer) ==
    /\ Len(longer.lines) = Len(file.lines) + 1
    /\ SubSeq(longer.lines, 1, Len(file.lines)) = file.lines
    /\ \E e \in Entries :
         longer.lines[Len(longer.lines)] = << [json |-> JsonStringify(e)] >>

\* s is a run of consecutive elements of t
IsRun(s, t) ==
    \E k \in 0..(Len(t) - Len(s)) : s = SubSeq(t, k + 1, k + Len(s))

\* C24: every step leaves the file as it was, appends one line to it,
\* replaces it (with the appended line, when it comes from an append) by a
\* suffix of its lines, or deletes it; at all times the lines of the file
\* and the entries of a loaded cache are runs of consecutive entries in the
\* order of their arrival, each entry as it was appended.
C24_AppendOnly ==
    /\ [][\/ disk' = disk
          \/ OneLineMore(disk, disk')
          \/ IsSuffix(disk'.lines, disk.lines)
          \/ \E e \in Entries :
                IsSuffix(disk'.lines,
                         Append(disk.lines, << [json |-> JsonStringify(e)] >>))
          \/ disk' = NoFile]_vars
    /\ [](/\ IsRun(disk.lines, WrittenLines)
          /\ entriesCache.loaded => IsRun(entriesCache.entries, arrived))

C24_Witness ==
    /\ lastCall.op = "append" /\ lastCall.triggered /\ lastCall.fault = "none"
    /\ lastCall.warm
    /\ Len(arrived) = 3 /\ Len(disk.lines) = 2
    /\ disk.lines = SubSeq(WrittenLines, 2, 3)

\* a step that is a call of op made by the caller
Calls(ops) == lastCall.op = "none" /\ lastCall'.op \in ops

\* what the call answered, computed from the entries it was given
AnsweredFrom(call, entries) ==
    CASE call.op = "query" -> call.result = queryRunHistory(entries, call.opts)
      [] call.op = "get" ->
           LET i == getRunEntry(entries, call.id)
           IN  call.result = IF i = 0 THEN <<>> ELSE <<entries[i]>>
      [] call.op = "stats" -> call.result = StatsCounts(entries)

\* C28: a read on a loaded cache, the empty one included, is answered from
\* the cache, which it leaves as it is, whatever the file holds; the cache
\* stays loaded until a successful rotation, a clear or a test hook; an
\* append on an unloaded cache writes the file and leaves the cache
\* unloaded.
C28_AnsweredFromCache ==
    /\ [][(Calls({"query", "get", "stats"}) /\ entriesCache.loaded)
            => /\ entriesCache' = entriesCache
               /\ disk' = disk
               /\ AnsweredFrom(lastCall', entriesCache.entries)]_vars
    /\ [][(entriesCache.loaded /\ ~entriesCache'.loaded)
            => \/ lastCall'.op \in {"clear", "reset", "setPath"}
               \/ /\ lastCall'.op = "append"
                  /\ lastCall'.triggered /\ lastCall'.fault = "none"]_vars
    /\ [][(Calls({"append"}) /\ ~entriesCache.loaded)
            => /\ ~entriesCache'.loaded
               /\ lastCall'.fault = "none"
                  => /\ disk'.lines # <<>>
                     /\ disk'.lines[Len(disk'.lines)]
                          = << [json |-> JsonStringify(lastCall'.entry)] >>]_vars

C28_Witness ==
    /\ Queried({}) /\ lastCall.warm
    /\ entriesCache = Loaded(<<>>)
    /\ Len(disk.lines) = 2
    /\ lastCall.result = <<>>

\* C30: a query, a getRunEntry or a runHistoryStats call leaves the file
\* as it is and a loaded cache as it is, and leaves the cache loaded (the
\* log path, when not yet resolved, becomes the default path); the same
\* call made again right after it returns the same result.
C30_ReadsAreFrameSafe ==
    /\ [][Calls({"query", "get", "stats"})
            => /\ disk' = disk /\ dirExists' = dirExists
               /\ entriesCache'.loaded
               /\ entriesCache.loaded => entriesCache' = entriesCache
               /\ logFilePath' = resolveLogPath]_vars
    /\ [](lastCall.op \in {"query", "get", "stats"}
            => \A again \in LoadFaults(disk, entriesCache) :
                 AnsweredFrom(lastCall,
                              loadEntries(disk, entriesCache, again).entries))

C30_Witness ==
    /\ lastCall.op = "get" /\ ~lastCall.warm /\ lastCall.fault = "none"
    /\ lastCall.id = "r2" /\ lastCall.result = <<R2>>
    /\ Len(entriesCache.entries) = 3

\* C25: when the file ends with a record that a killed write left without
\* its newline, an entry appended after that is returned, newest first, by
\* the next load of the file.
C25_CrashTolerant ==
    (/\ Queried({}) /\ ~lastCall.warm /\ lastCall.fault = "none"
     /\ lastCall.after.kind = "appended" /\ ~lastCall.after.rotated)
    => /\ lastCall.result # <<>>
       /\ lastCall.result[1] = lastCall.after.entry

\* C29: with more than 500 well-formed lines in the file, a load keeps the
\* newest 500: no query, whatever its limit and filters, and no getRunEntry
\* returns an entry of an older line, runHistoryStats counts 500 runs, and
\* the file still holds every line.
C29_OldEntriesHidden ==
    LET n == Len(disk.lines)
        old == {JsonParse(disk.lines[i]) : i \in 1..(n - MAX_ENTRIES_IN_MEMORY)}
    IN  /\ n > MAX_ENTRIES_IN_MEMORY
        /\ disk.lines = WrittenLines
        /\ lastCall.op \in {"query", "get"}
             => \A i \in 1..Len(lastCall.result) : lastCall.result[i] \notin old
        /\ lastCall.op = "get" /\ lastCall.id = "r1"
             => lastCall.result = <<Filler(n - MAX_ENTRIES_IN_MEMORY + 1)>>
        /\ lastCall.op = "stats" => lastCall.result.totalRuns = MAX_ENTRIES_IN_MEMORY

C29_Witness ==
    /\ Queried({"limit"}) /\ lastCall.opts.limit = 0 /\ ~lastCall.warm
    /\ Len(disk.lines) = MAX_ENTRIES_IN_MEMORY + 2
    /\ JsonParse(disk.lines[1]) = R2
    /\ Len(lastCall.result) = MAX_ENTRIES_IN_MEMORY
    /\ lastCall.result[MAX_ENTRIES_IN_MEMORY] = Filler(3)

\* C27: an append whose rotation fails, in the read or in the rewrite, does
\* not throw, leaves in the file every line that was there and the new line
\* after them, and leaves the cache loaded when it was; an append that
\* leaves the file longer than 5 MiB attempts the rotation.
C27_FailedRotationKeepsFile ==
    lastCall.op = "append"
    => LET line == << [json |-> JsonStringify(lastCall.entry)] >>
           all == Append(lastCall.before.lines, line)
       IN  /\ (lastCall.triggered /\ lastCall.fault # "none")
              => /\ ~lastCall.raised
                 /\ disk.lines = all
                 /\ entriesCache.loaded = lastCall.warm
           /\ (lastCall.wrote /\ lastCall.fault # "statSync"
                 /\ SumBytes(all) > MAX_LOG_SIZE_BYTES)
              => lastCall.triggered

\* C22: after a clearRunHistory() that was not awaited has removed the file
\* and resolved, whatever calls ran meanwhile, a query returns only entries
\* appended after clearRunHistory() was called.
C22_ClearedForGood ==
    (removal.pc = "resolved" /\ lastCall.op = "query")
    => \A i \in 1..Len(lastCall.result) :
         lastCall.result[i] \in {arrived[j] : j \in (removal.mark + 1)..Len(arrived)}

\* C26: whatever JSON texts the lines of the file are, no query, getRunEntry
\* or runHistoryStats throws: each returns its list, its entry or nothing,
\* or its counts.
C26_ReadersNeverThrow ==
    lastCall.op \in {"query", "get", "stats"}
    => ~lastCall.raised

====
